---- MODULE Spec2Model ----
(***************************************************************************)
(* Model of the dalek-browser-ios driver (src/index.js): port negotiation, *)
(* the process registry and the launch / kill lifecycle around the         *)
(* external Appium server; and of the earlier variant of the driver kept   *)
(* in the repository (src/unnamed/part_000), called `legacy` here.         *)
(*                                                                         *)
(* A driver is one JavaScript object on a single-threaded event loop.      *)
(* Every asynchronous operation it issues (port scan, `ps` listing, Appium *)
(* start, the kill timer) is an entry of `pending`; the action that        *)
(* completes an entry runs the whole callback the code bound to it.        *)
(* Variables whose name starts with `g` are history variables: they record *)
(* what happened and never influence the driver.  The first event of a     *)
(* launch trace tells whether the driver was idle at the call, the first   *)
(* event of a kill trace how many launches had been made at the call.      *)
(***************************************************************************)
EXTENDS Integers, Sequences, FiniteSets, TLC

(***************************************************************************)
(* Bounds                                                                  *)
(***************************************************************************)
MaxLaunch == 2     \* launch() calls in one behaviour
MaxKill == 2       \* kill() calls in one behaviour
MaxText == 6       \* characters in a listing given to the parser on its own
MaxPid == 2        \* simulator processes have the identifiers 1..MaxPid

(***************************************************************************)
(* JavaScript values.  Ports are naturals; `undefined` and `false` are     *)
(* encoded as negative integers so that they compare with ports the way    *)
(* === does (never equal to a port).                                       *)
(***************************************************************************)
Undefined == 0 - 1
False == 0 - 2

DefaultPort == 4723
DefaultWebhookPort == 9003
ScannerCeiling == 65535

\* the two functions a console sink can be: the one installed by the
\* runtime and the no-op closure of _suppressAppiumLogs
OrigSink == "orig"
NoopSink == "noop"

Sessions == 1..MaxLaunch
Kills == 1..MaxKill
Pids == 1..MaxPid

(***************************************************************************)
(* Text of the process listing.  A character is a one-character string; a  *)
(* text is a sequence of characters.                                       *)
(***************************************************************************)
SP == " "
NL == "\n"
Digits == <<"0", "1", "2", "3", "4", "5", "6", "7", "8", "9">>

\* decimal rendering of a natural, as `ps` prints a pid
RECURSIVE ToText(_)
ToText(n) ==
  IF n < 10 THEN <<Digits[n + 1]>>
  ELSE ToText(n \div 10) \o <<Digits[(n % 10) + 1]>>

\* String.prototype.split for a one-character separator: the pieces
\* between separators, empty pieces included.  `piece` is the piece being
\* read, i the position of the next character.
RECURSIVE SplitFrom(_, _, _, _)
SplitFrom(text, sep, piece, i) ==
  IF i > Len(text) THEN <<piece>>
  ELSE IF text[i] = sep THEN <<piece>> \o SplitFrom(text, sep, <<>>, i + 1)
  ELSE SplitFrom(text, sep, Append(piece, text[i]), i + 1)

Split(text, sep) == SplitFrom(text, sep, <<>>, 1)

\* _filterProcessItem: keeps the non-empty items
_filterProcessItem(item) == item # <<>>

\* Array.prototype.filter
RECURSIVE Filter(_)
Filter(items) ==
  IF items = <<>> THEN <<>>
  ELSE IF _filterProcessItem(Head(items))
       THEN <<Head(items)>> \o Filter(Tail(items))
       ELSE Filter(Tail(items))

\* fault: the empty items are not filtered out
_scanProcessUnfiltered(result, line) ==
  LET data == Split(line, SP)
  IN IF Len(data) >= 2 /\ data[2] = <<"?", "?">>
     THEN Append(result, data[1])
     ELSE result

\* _scanProcess: the new value of `result` after one line of the listing.
\* data[1] of the code is the second item; a missing item is undefined
\* and differs from '??'
_scanProcess(result, line) ==
  LET data == Filter(Split(line, SP))
  IN IF Len(data) >= 2 /\ data[2] = <<"?", "?">>
     THEN Append(result, data[1])
     ELSE result

\* Array.prototype.forEach(_scanProcess.bind(this, result)) over the lines
RECURSIVE ScanLines(_, _)
ScanLines(result, lines) ==
  IF lines = <<>> THEN result
  ELSE ScanLines(_scanProcess(result, Head(lines)), Tail(lines))

\* _transformProcesses: the list handed to the callback for a given stdout
\* (the error argument is passed through untouched and never inspected)
_transformProcesses(stdout) == ScanLines(<<>>, Split(stdout, NL))

\* the legacy variant parses inside _processes: its filter callback returns
\* the item itself (a non-empty string, which is truthy) or false
LegacyFilterItem(item) == IF item # <<>> THEN TRUE ELSE FALSE

RECURSIVE LegacyFilter(_)
LegacyFilter(items) ==
  IF items = <<>> THEN <<>>
  ELSE IF LegacyFilterItem(Head(items))
       THEN <<Head(items)>> \o LegacyFilter(Tail(items))
       ELSE LegacyFilter(Tail(items))

RECURSIVE LegacyScanLines(_, _)
LegacyScanLines(result, lines) ==
  IF lines = <<>> THEN result
  ELSE LET data == LegacyFilter(Split(Head(lines), SP))
       IN LegacyScanLines(IF Len(data) >= 2 /\ data[2] = <<"?", "?">>
                          THEN Append(result, data[1]) ELSE result,
                          Tail(lines))

LegacyTransform(stdout) == LegacyScanLines(<<>>, Split(stdout, NL))

(***************************************************************************)
(* The host: what `ps -ax | grep "iPhone Simulator.app"` prints.  `ps`     *)
(* right-aligns the pid and pads its columns with blanks; a process with   *)
(* no controlling terminal has '??' in the second column.                  *)
(***************************************************************************)
PsLine(pid, detached) ==
  <<SP, SP>> \o ToText(pid) \o <<SP>>
    \o (IF detached THEN <<"?", "?">> ELSE <<"t", "t", "y">>)
    \o <<SP, SP, "S", NL>>

\* the listing of the processes `shown`, by ascending pid; `detached` are
\* those of them without a controlling terminal
RECURSIVE PsOutput(_, _)
PsOutput(shown, detached) ==
  IF shown = {} THEN <<>>
  ELSE LET pid == CHOOSE p \in shown : \A q \in shown : p <= q
       IN PsLine(pid, pid \in detached) \o PsOutput(shown \ {pid}, detached)

\* the pid of the `grep` of the pipeline, which lists itself and has the
\* terminal of the test run
GrepPid == MaxPid + 1

\* every stdout cp.exec can hand to its callback when the command ran: the
\* simulator processes alive at that moment and the grep itself
PsOutputs ==
  {PsOutput(detached \cup {GrepPid}, detached) : detached \in SUBSET Pids}

\* the elements of a list
Range(list) == {list[i] : i \in 1..Len(list)}

(***************************************************************************)
(* The host: portscanner.findAPortNotInUse(start, end, host, cb).  It      *)
(* probes start, start + 1, ... up to end (its own ceiling when end is     *)
(* undefined) and reports the first port that is not in use, or `false`    *)
(* when there is none.                                                     *)
(***************************************************************************)
RECURSIVE Probe(_, _, _)
Probe(p, end, occupied) ==
  IF p > end THEN False
  ELSE IF p \notin occupied THEN p
  ELSE Probe(p + 1, end, occupied)

findAPortNotInUse(start, end, occupied) ==
  IF start < 0 THEN False
  ELSE Probe(start, IF end = Undefined THEN ScannerCeiling ELSE end, occupied)

\* what a scan of start..end must find on a host where `occupied` is in use:
\* the lowest port of the range that is free, `false` when there is none.
\* (With n ports in use, one of the first n + 1 ports of the range is free.)
LowestFree(start, end, occupied) ==
  LET top == IF end = Undefined THEN ScannerCeiling ELSE end
      near == start + Cardinality(occupied)
      free == {p \in start..(IF near < top THEN near ELSE top) : p \notin occupied}
  IN IF start < 0 \/ free = {} THEN False
     ELSE CHOOSE p \in free : \A q \in free : p <= q

(***************************************************************************)
(* Configuration handed to launch().  `configuration.type` is the device   *)
(* preset; config.get('browsers') is a list of entries, each with the four *)
(* optional port settings of its `ios` key (Undefined / <<>> when absent). *)
(***************************************************************************)
UserPort == 6100       \* the port of the documented override examples
RangeWidth == 1        \* user ranges span UserPort..UserPort + RangeWidth

UserMax == UserPort + RangeWidth

NoIos ==
  [port |-> Undefined, portRange |-> <<>>,
   webhookPort |-> Undefined, webhookPortRange |-> <<>>]

BrowserEntries ==
  { NoIos,
    [NoIos EXCEPT !.port = UserPort],
    [NoIos EXCEPT !.portRange = <<UserPort, UserMax>>],
    [NoIos EXCEPT !.webhookPort = UserPort],
    [NoIos EXCEPT !.webhookPortRange = <<UserPort, UserMax>>],
    [NoIos EXCEPT !.port = UserPort + 1, !.portRange = <<UserPort, UserMax>>],
    [NoIos EXCEPT !.webhookPort = UserPort + 1,
                  !.webhookPortRange = <<UserPort, UserMax>>],
    [NoIos EXCEPT !.portRange = <<UserPort, UserMax>>,
                  !.webhookPortRange = <<UserPort, UserMax>>] }

\* the `browsers` lists tried: none, or a single entry
BrowsersLists == {<<>>} \cup {<<b>> : b \in BrowserEntries}

DeviceTypes == {"iphone", "ipad"}

\* the ports another program may hold when a scan probes them
PortPool == {DefaultPort, DefaultWebhookPort} \cup (UserPort..UserMax)

(***************************************************************************)
(* parseInt(x, 10): x is converted to its decimal text, and the longest    *)
(* prefix of digits is read back as a number.                              *)
(***************************************************************************)
DigitValue(c) == CHOOSE v \in 0..9 : Digits[v + 1] = c

IsDigit(c) == \E v \in 0..9 : Digits[v + 1] = c

RECURSIVE ReadDigits(_, _)
ReadDigits(acc, text) ==
  IF text = <<>> \/ ~IsDigit(Head(text)) THEN acc
  ELSE ReadDigits(acc * 10 + DigitValue(Head(text)), Tail(text))

parseInt(n) == ReadDigits(0, ToText(n))

(***************************************************************************)
(* State                                                                   *)
(***************************************************************************)
VARIABLES
  this,        \* the IosDriver object: the fields the code reads and writes
  legacy,      \* the IosDriver object of the legacy variant
  process,     \* process.stdout.write and process.stderr.write
  deferred,    \* the promise of each launch(): none / pending / resolved / rejected
  pending,     \* asynchronous operations issued and not yet completed
  nLaunch,     \* launch() calls so far
  nKill,       \* kill() calls so far
  gTrace,      \* per launch: what its call chain did, in order
  gKillTrace,  \* per kill: what the call and its reaping did, in order
  gReap,       \* per kill: baseline, enumeration and signals of its reaping
  gArgs,       \* per launch: the arguments given to appium.run
  gDriver,     \* which variant of the driver the process has loaded
  parse        \* a listing given to the parser on its own, and what came back

vars ==
  <<this, legacy, process, deferred, pending, nLaunch, nKill, gTrace,
    gKillTrace, gReap, gArgs, gDriver, parse>>

NoList == [defined |-> FALSE, list |-> <<>>]

NoArgs == [port |-> Undefined, webhookHost |-> "", webhookPort |-> Undefined,
           forceIpad |-> FALSE]

NoReap ==
  [done |-> FALSE, baseline |-> <<>>, current |-> <<>>, signalled |-> <<>>,
   failed |-> {}, launches |-> 0]

NoParse == [stdout |-> <<>>, done |-> FALSE, result |-> <<>>]

Op(kind, id, lo, hi) == [op |-> kind, id |-> id, lo |-> lo, hi |-> hi]

Init ==
  /\ this = [port |-> DefaultPort,
             maxPort |-> Undefined,
             webhookPort |-> DefaultWebhookPort,
             maxWebhookPort |-> Undefined,
             host |-> "localhost",
             forceIpad |-> FALSE,
             argsPort |-> Undefined,
             argsWebhookHost |-> "",
             argsWebhookPort |-> Undefined,
             openProcesses |-> NoList,
             appiumServer |-> Undefined,
             oldWrite |-> "undefined",
             oldWriteErr |-> "undefined"]
  /\ legacy = [port |-> DefaultPort,
               webhookPort |-> DefaultWebhookPort,
               host |-> "localhost",
               forceIpad |-> FALSE,
               argsPort |-> Undefined,
               argsWebhookHost |-> "",
               argsWebhookPort |-> Undefined,
               openProcesses |-> NoList,
               appiumServer |-> Undefined,
               old_write |-> "undefined"]
  /\ process = [stdout |-> OrigSink, stderr |-> OrigSink]
  /\ deferred = [d \in Sessions |-> "none"]
  /\ pending = {}
  /\ nLaunch = 0
  /\ nKill = 0
  /\ gTrace = [d \in Sessions |-> <<>>]
  /\ gKillTrace = [k \in Kills |-> <<>>]
  /\ gReap = [k \in Kills |-> NoReap]
  /\ gArgs = [d \in Sessions |-> NoArgs]
  /\ gDriver \in {"index", "legacy"}
  /\ parse = NoParse

getPort(t) == t.port
getMaxPort(t) == t.maxPort
\* fault: the webhook getter reads the control port
getWebhookPortAsPort(t) == t.port

getWebhookPort(t) == t.webhookPort
getMaxWebhookPort(t) == t.maxWebhookPort
getHost(t) == t.host

(***************************************************************************)
(* Driver methods.  A method is an operator on a frame                     *)
(*   [this, process, log]                                                  *)
(* and yields the frame it leaves behind; `log` collects, in order, the    *)
(* messages it emits on reporterEvents and the calls it makes to the host. *)
(***************************************************************************)
PortSpan == 90

Ev(e, v) == [e |-> e, v |-> v]

Frame == [this |-> this, process |-> process, log |-> <<>>]

Emit(st, e, v) == [st EXCEPT !.log = Append(@, Ev(e, v))]

\* JavaScript truthiness of an optional port setting
Truthy(x) == x # Undefined /\ x # 0

_checkAppiumPorts(st, browser) ==
  LET s1 == IF Truthy(browser.port)
            THEN Emit([st EXCEPT !.this.port = parseInt(browser.port),
                                 !.this.maxPort = parseInt(browser.port) + PortSpan],
                      "log:userPort", parseInt(browser.port))
            ELSE st
  IN IF Len(browser.portRange) = 2
     THEN Emit([s1 EXCEPT !.this.port = parseInt(browser.portRange[1]),
                          !.this.maxPort = parseInt(browser.portRange[2])],
               "log:userPortRange", parseInt(browser.portRange[1]))
     ELSE s1

\* fault: the single webhook port is applied after the range, and wins
_checkWebhookPortsSingleLast(st, browser) ==
  LET s1 == IF Len(browser.webhookPortRange) = 2
            THEN Emit([st EXCEPT !.this.webhookPort = parseInt(browser.webhookPortRange[1]),
                                 !.this.maxWebhookPort = parseInt(browser.webhookPortRange[2])],
                      "log:userWebhookPortRange", parseInt(browser.webhookPortRange[1]))
            ELSE st
  IN IF Truthy(browser.webhookPort)
     THEN Emit([s1 EXCEPT !.this.webhookPort = parseInt(browser.webhookPort),
                          !.this.maxWebhookPort =
                              parseInt(browser.webhookPort) + PortSpan],
               "log:userWebhookPort", parseInt(browser.webhookPort))
     ELSE s1

_checkWebhookPorts(st, browser) ==
  LET s1 == IF Truthy(browser.webhookPort)
            THEN Emit([st EXCEPT !.this.webhookPort = parseInt(browser.webhookPort),
                                 !.this.maxWebhookPort =
                                     parseInt(browser.webhookPort) + PortSpan],
                      "log:userWebhookPort", parseInt(browser.webhookPort))
            ELSE st
  IN IF Len(browser.webhookPortRange) = 2
     THEN Emit([s1 EXCEPT !.this.webhookPort = parseInt(browser.webhookPortRange[1]),
                          !.this.maxWebhookPort = parseInt(browser.webhookPortRange[2])],
               "log:userWebhookPortRange", parseInt(browser.webhookPortRange[1]))
     ELSE s1

_checkUserDefinedPorts(st, browser) ==
  _checkWebhookPorts(_checkAppiumPorts(st, browser), browser)

\* browsers.forEach(this._checkUserDefinedPorts.bind(this))
RECURSIVE ForEachBrowser(_, _)
ForEachBrowser(st, browsers) ==
  IF browsers = <<>> THEN st
  ELSE ForEachBrowser(_checkUserDefinedPorts(st, Head(browsers)), Tail(browsers))

\* fault: the switch is announced whatever the scan reports
AdoptPortLoud(st, port) ==
  Emit([st EXCEPT !.this.port = port], "log:switchPort", port)

\* _checkPorts up to its call of the scanner: adopt the reported port
AdoptPort(st, port) ==
  IF st.this.port # port
  THEN Emit([st EXCEPT !.this.port = port], "log:switchPort", port)
  ELSE st

\* fault: the webhook port is written into the control port's field
AdoptWebhookPortIntoPort(st, port) ==
  IF st.this.webhookPort # port
  THEN Emit([st EXCEPT !.this.port = port], "log:switchWebhookPort", port)
  ELSE st

\* fault: the webhook port is switched without the message
AdoptWebhookPortSilent(st, port) ==
  [st EXCEPT !.this.webhookPort = port]

\* _launch up to its call of _processes: adopt the reported webhook port
AdoptWebhookPort(st, port) ==
  IF st.this.webhookPort # port
  THEN Emit([st EXCEPT !.this.webhookPort = port], "log:switchWebhookPort", port)
  ELSE st

_suppressAppiumLogs(st) ==
  [st EXCEPT !.this.oldWrite = st.process.stdout,
             !.this.oldWriteErr = st.process.stderr,
             !.process.stdout = NoopSink,
             !.process.stderr = NoopSink]

\* fault: the stdout sink is not put back
_reinstantiateLogNot(st) == st

_reinstantiateLog(st) ==
  [st EXCEPT !.process.stdout = st.this.oldWrite]

\* appiumArgs is the driver's own object: the call writes into it
_loadAppiumArgs(st) ==
  [st EXCEPT !.this.argsPort = getPort(st.this),
             !.this.argsWebhookHost = getHost(st.this),
             !.this.argsWebhookPort = getWebhookPort(st.this)]

\* the arguments object as appium.run receives it
AppiumArgs(t) ==
  [port |-> t.argsPort, webhookHost |-> t.argsWebhookHost,
   webhookPort |-> t.argsWebhookPort, forceIpad |-> t.forceIpad]

\* fault: the walk over openProcesses stops after its first entry
_killProcessFirstOnly(t, processID) ==
  Len(t.openProcesses.list) = 0 \/ t.openProcesses.list[1] # processID

\* _killProcess: TRUE iff `kill processID` is spawned
_killProcess(t, processID) ==
  \A i \in 1..Len(t.openProcesses.list) : t.openProcesses.list[i] # processID

\* fault: the loop over the enumeration leaves out its last entry
RECURSIVE KillEachButLast(_, _)
KillEachButLast(t, result) ==
  IF Len(result) <= 1 THEN <<>>
  ELSE (IF \A i \in 1..Len(t.openProcesses.list) :
             t.openProcesses.list[i] # Head(result)
        THEN <<Head(result)>> ELSE <<>>)
         \o KillEachButLast(t, Tail(result))

\* result.forEach(this._killProcess.bind(this)): the pids signalled, in order
RECURSIVE KillEach(_, _)
KillEach(t, result) ==
  IF result = <<>> THEN <<>>
  ELSE (IF _killProcess(t, Head(result)) THEN <<Head(result)>> ELSE <<>>)
         \o KillEach(t, Tail(result))

\* fault: the stderr sink is not put back
RestoreStderrNot(st) == st

\* _kill after the forEach: put the stderr sink back
RestoreStderr(st) ==
  [st EXCEPT !.process.stderr = st.this.oldWriteErr]

(***************************************************************************)
(* Reading the history variables                                           *)
(***************************************************************************)
Has(trace, e) == \E i \in 1..Len(trace) : trace[i].e = e

\* position of the first event named e at or after i, 0 when there is none
RECURSIVE PosFrom(_, _, _)
PosFrom(trace, e, i) ==
  IF i > Len(trace) THEN 0
  ELSE IF trace[i].e = e THEN i
  ELSE PosFrom(trace, e, i + 1)

\* position of the first event named e, 0 when there is none
Pos(trace, e) == PosFrom(trace, e, 1)

Count(trace, e) == Cardinality({i \in 1..Len(trace) : trace[i].e = e})

\* the value of the first event named e (which must exist)
Val(trace, e) == trace[Pos(trace, e)].v

Started == 1..nLaunch

\* the handles whose listeners a kill() has already closed
Closed == {h \in Sessions : \E k \in Kills : Ev("stop:ws", h) \in Range(gKillTrace[k])}

\* session d has been torn down: its server was told to stop and the
\* reaping that followed has run
Reaped(d) ==
  \E k \in Kills : gReap[k].done /\ Ev("stop:ws", d) \in Range(gKillTrace[k])

\* the lifecycle state Idle: nothing is pending and every session that was
\* launched has been torn down
Idle == pending = {} /\ \A d \in Started : Reaped(d)

(***************************************************************************)
(* Actions: launch() and kill() as the host framework calls them, and one  *)
(* action per callback the event loop runs.                                *)
(***************************************************************************)
Trace(d, events) == [gTrace EXCEPT ![d] = @ \o events]

KillTrace(k, events) == [gKillTrace EXCEPT ![k] = @ \o events]

\* the listing of a host on which one simulator is running
QuietListing == [err |-> FALSE, stdout |-> PsOutput({1, GrepPid}, {1})]

\* every (error, stdout) pair cp.exec can deliver for the listing command
ExecOutcomes ==
  {[err |-> FALSE, stdout |-> out] : out \in PsOutputs}
    \cup {[err |-> TRUE, stdout |-> <<>>]}

\* what _transformProcesses hands on for each of them
Listings == [out \in ExecOutcomes \cup {QuietListing} |-> _transformProcesses(out.stdout)]

Listed(out) == Listings[out]

\* fault: both negotiations are issued at once
launchBothScans(type, browsers) ==
  /\ gDriver = "index"
  /\ nLaunch < MaxLaunch
  /\ LET d == nLaunch + 1
         s0 == IF type = "ipad" THEN [Frame EXCEPT !.this.forceIpad = TRUE] ELSE Frame
         s1 == ForEachBrowser(s0, browsers)
     IN /\ this' = s1.this
        /\ nLaunch' = d
        /\ deferred' = [deferred EXCEPT ![d] = "pending"]
        /\ pending' = pending \cup
             {Op("scanPort", d, getPort(s1.this), getMaxPort(s1.this)),
              Op("scanWebhook", d, getWebhookPort(s1.this), getMaxWebhookPort(s1.this))}
        /\ gTrace' = Trace(d, <<Ev("launch", IF Idle THEN 1 ELSE 0),
                                 Ev("type", type),
                                 Ev("config", browsers),
                                 Ev("sinks", <<process.stdout, process.stderr>>)>>
                                 \o s1.log
                                 \o <<Ev("ctl:start", getPort(s1.this)),
                                      Ev("ctl:range", <<getPort(s1.this), getMaxPort(s1.this)>>),
                                      Ev("hook:start", getWebhookPort(s1.this))>>)
  /\ UNCHANGED <<legacy, process, nKill, gKillTrace, gReap, gArgs, gDriver, parse>>

\* launch(configuration, events, config)
launch(type, browsers) ==
  /\ gDriver = "index"
  /\ nLaunch < MaxLaunch
  /\ LET d == nLaunch + 1
         s0 == IF type = "ipad" THEN [Frame EXCEPT !.this.forceIpad = TRUE] ELSE Frame
         s1 == ForEachBrowser(s0, browsers)
     IN /\ this' = s1.this
        /\ nLaunch' = d
        /\ deferred' = [deferred EXCEPT ![d] = "pending"]
        /\ pending' = pending \cup
             {Op("scanPort", d, getPort(s1.this), getMaxPort(s1.this))}
        /\ gTrace' = Trace(d, <<Ev("launch", IF Idle THEN 1 ELSE 0),
                                 Ev("type", type),
                                 Ev("config", browsers),
                                 Ev("sinks", <<process.stdout, process.stderr>>)>>
                                 \o s1.log
                                 \o <<Ev("ctl:start", getPort(s1.this)),
                                      Ev("ctl:range", <<getPort(s1.this), getMaxPort(s1.this)>>)>>)
  /\ UNCHANGED <<legacy, process, nKill, gKillTrace, gReap, gArgs, gDriver, parse>>

\* _checkPorts(deferred, error, port), run when the control-port scan ends
_checkPorts(op, occupied) ==
  /\ op \in pending /\ op.op = "scanPort"
  /\ LET port == findAPortNotInUse(op.lo, op.hi, occupied)
         s1 == AdoptPort(Frame, port)
     IN /\ this' = s1.this
        /\ pending' = (pending \ {op}) \cup
             {Op("scanWebhook", op.id, getWebhookPort(s1.this),
                 getMaxWebhookPort(s1.this))}
        /\ gTrace' = Trace(op.id,
             <<Ev("ctl:free", IF op.lo \in occupied THEN 0 ELSE 1),
               Ev("ctl:lowest", LowestFree(op.lo, op.hi, occupied)),
               Ev("ctl:done", port)>>
             \o s1.log
             \o <<Ev("hook:start", getWebhookPort(s1.this)),
                  Ev("hook:range", <<getWebhookPort(s1.this), getMaxWebhookPort(s1.this)>>)>>)
  /\ UNCHANGED <<legacy, process, deferred, nLaunch, nKill, gKillTrace, gReap, gArgs, gDriver, parse>>

\* _launch(deferred, error, port), run when the webhook-port scan ends
_launch(op, occupied) ==
  /\ op \in pending /\ op.op = "scanWebhook"
  /\ LET port == findAPortNotInUse(op.lo, op.hi, occupied)
         s1 == AdoptWebhookPort(Frame, port)
     IN /\ this' = s1.this
        /\ pending' = (pending \ {op}) \cup {Op("psLaunch", op.id, Undefined, Undefined)}
        /\ gTrace' = Trace(op.id,
             <<Ev("hook:free", IF op.lo \in occupied THEN 0 ELSE 1),
               Ev("hook:lowest", LowestFree(op.lo, op.hi, occupied)),
               Ev("hook:done", port)>>
             \o s1.log
             \o <<Ev("ps:start", 0)>>)
  /\ UNCHANGED <<legacy, process, deferred, nLaunch, nKill, gKillTrace, gReap, gArgs, gDriver, parse>>

\* fault: the promise is resolved as soon as appium.run has been called
_listProcessesResolving(op, out, throws) ==
  /\ op \in pending /\ op.op = "psLaunch"
  /\ LET result == Listed(out)
         s1 == [Frame EXCEPT !.this.openProcesses = [defined |-> TRUE, list |-> result]]
         s2 == _suppressAppiumLogs(s1)
         s3 == _loadAppiumArgs(s2)
     IN /\ this' = s3.this
        /\ process' = s3.process
        /\ gArgs' = [gArgs EXCEPT ![op.id] = AppiumArgs(s3.this)]
        /\ pending' = (pending \ {op}) \cup
             (IF throws THEN {} ELSE {Op("appium", op.id, Undefined, Undefined)})
        /\ gTrace' = Trace(op.id,
             <<Ev(IF out.err THEN "ps:error" ELSE "ps:done", 0),
               Ev("snapshot", result), Ev("suppress", 0), Ev("appium:run", 0)>>
             \o (IF throws THEN <<Ev("appium:threw", 0)>> ELSE <<Ev("resolve", 0)>>))
  /\ deferred' = [deferred EXCEPT ![op.id] = IF throws THEN @ ELSE "resolved"]
  /\ UNCHANGED <<legacy, nLaunch, nKill, gKillTrace, gReap, gDriver, parse>>

\* _transformProcesses and then _listProcesses(deferred, err, result), run
\* when the listing issued by _launch ends.  appium.run either throws out
\* of the callback or takes the readiness callback with it.
_listProcesses(op, out, throws) ==
  /\ op \in pending /\ op.op = "psLaunch"
  /\ LET result == Listed(out)
         s1 == [Frame EXCEPT !.this.openProcesses = [defined |-> TRUE, list |-> result]]
         s2 == _suppressAppiumLogs(s1)
         s3 == _loadAppiumArgs(s2)
     IN /\ this' = s3.this
        /\ process' = s3.process
        /\ gArgs' = [gArgs EXCEPT ![op.id] = AppiumArgs(s3.this)]
        /\ pending' = (pending \ {op}) \cup
             (IF throws THEN {} ELSE {Op("appium", op.id, Undefined, Undefined)})
        /\ gTrace' = Trace(op.id,
             <<Ev(IF out.err THEN "ps:error" ELSE "ps:done", 0),
               Ev("snapshot", result), Ev("suppress", 0), Ev("appium:run", 0)>>
             \o (IF throws THEN <<Ev("appium:threw", 0)>> ELSE <<>>))
  /\ UNCHANGED <<legacy, deferred, nLaunch, nKill, gKillTrace, gReap, gDriver, parse>>

\* fault: the readiness callback does not resolve the promise
_afterAppiumStartedUnresolved(op) ==
  /\ op \in pending /\ op.op = "appium"
  /\ LET s1 == [Frame EXCEPT !.this.appiumServer = op.id]
         s2 == _reinstantiateLog(s1)
     IN /\ this' = s2.this
        /\ process' = s2.process
  /\ pending' = pending \ {op}
  /\ gTrace' = Trace(op.id, <<Ev("ready", op.id), Ev("restore", 0)>>)
  /\ UNCHANGED <<legacy, deferred, nLaunch, nKill, gKillTrace, gReap, gArgs, gDriver, parse>>

\* _afterAppiumStarted(deferred, appiumServer): appium's readiness callback.
\* The handle delivered is identified by the launch that started the server.
_afterAppiumStarted(op) ==
  /\ op \in pending /\ op.op = "appium"
  /\ LET s1 == [Frame EXCEPT !.this.appiumServer = op.id]
         s2 == _reinstantiateLog(s1)
     IN /\ this' = s2.this
        /\ process' = s2.process
  /\ deferred' = [deferred EXCEPT ![op.id] = "resolved"]
  /\ pending' = pending \ {op}
  /\ gTrace' = Trace(op.id, <<Ev("ready", op.id), Ev("restore", 0), Ev("resolve", 0)>>)
  /\ UNCHANGED <<legacy, nLaunch, nKill, gKillTrace, gReap, gArgs, gDriver, parse>>

\* kill().  Reading a listener off an undefined handle throws; closing a
\* listener that is already closed throws on the runtimes where
\* net.Server.close() does so, and is a no-op on the others.
kill ==
  /\ gDriver = "index"
  /\ nKill < MaxKill
  /\ nKill' = nKill + 1
  /\ \/ /\ this.appiumServer = Undefined \/ this.appiumServer \in Closed
        /\ gKillTrace' = KillTrace(nKill + 1,
             <<Ev("kill", nLaunch), Ev("threw", this.appiumServer)>>)
        /\ UNCHANGED pending
     \/ /\ this.appiumServer # Undefined
        /\ gKillTrace' = KillTrace(nKill + 1,
             <<Ev("kill", nLaunch), Ev("stop:ws", this.appiumServer),
               Ev("stop:rest", this.appiumServer), Ev("timer", 0)>>)
        /\ pending' = pending \cup {Op("timer", nKill + 1, Undefined, Undefined)}
  /\ UNCHANGED <<this, legacy, process, deferred, nLaunch, gTrace, gReap, gArgs, gDriver, parse>>

\* the timer set by kill() fires: _processes(_kill) issues the listing
KillTimer(op) ==
  /\ op \in pending /\ op.op = "timer"
  /\ pending' = (pending \ {op}) \cup {Op("psKill", op.id, Undefined, Undefined)}
  /\ gKillTrace' = KillTrace(op.id, <<Ev("ps:start", 0)>>)
  /\ UNCHANGED <<this, legacy, process, deferred, nLaunch, nKill, gTrace, gReap, gArgs, gDriver, parse>>

\* fault: the reaping stores its own enumeration as the baseline
_killRebasing(op, out, failed) ==
  /\ op \in pending /\ op.op = "psKill"
  /\ LET result == Listed(out)
         signalled == KillEach(this, result)
         s1 == RestoreStderr(Frame)
     IN /\ failed \subseteq Range(signalled)
        /\ this' = [this EXCEPT !.openProcesses = [defined |-> TRUE, list |-> result]]
        /\ process' = s1.process
        /\ gReap' = [gReap EXCEPT ![op.id] =
             [done |-> TRUE, baseline |-> this.openProcesses.list,
              current |-> result, signalled |-> signalled, failed |-> failed,
              launches |-> nLaunch]]
        /\ gKillTrace' = KillTrace(op.id,
             <<Ev(IF out.err THEN "ps:error" ELSE "ps:done", 0),
               Ev("signal", Len(signalled)), Ev("restoreErr", 0)>>)
  /\ pending' = pending \ {op}
  /\ UNCHANGED <<legacy, deferred, nLaunch, nKill, gTrace, gArgs, gDriver, parse>>

\* _transformProcesses and then _kill(err, result), run when the listing
\* issued by the timer ends.  Each `kill` is spawned and left alone: for the
\* pids in `failed` it exits with an error (the process is gone already),
\* which the driver does not observe.
_kill(op, out, failed) ==
  /\ op \in pending /\ op.op = "psKill"
  /\ LET result == Listed(out)
         signalled == KillEach(this, result)
         s1 == RestoreStderr(Frame)
     IN /\ failed \subseteq Range(signalled)
        /\ process' = s1.process
        /\ gReap' = [gReap EXCEPT ![op.id] =
             [done |-> TRUE, baseline |-> this.openProcesses.list,
              current |-> result, signalled |-> signalled, failed |-> failed,
              launches |-> nLaunch]]
        /\ gKillTrace' = KillTrace(op.id,
             <<Ev(IF out.err THEN "ps:error" ELSE "ps:done", 0),
               Ev("signal", Len(signalled)), Ev("restoreErr", 0)>>)
  /\ pending' = pending \ {op}
  /\ UNCHANGED <<this, legacy, deferred, nLaunch, nKill, gTrace, gArgs, gDriver, parse>>

(***************************************************************************)
(* The legacy variant (src/unnamed/part_000).  It negotiates no port and   *)
(* redirects stdout only; its kill() lists the processes first and stops   *)
(* the server in the callback of the listing.                              *)
(***************************************************************************)
LegacyArgs(t) ==
  [port |-> t.argsPort, webhookHost |-> t.argsWebhookHost,
   webhookPort |-> t.argsWebhookPort, forceIpad |-> t.forceIpad]

\* launch(): redirect stdout, then list the processes
LegacyLaunch ==
  /\ gDriver = "legacy"
  /\ nLaunch < MaxLaunch
  /\ nLaunch' = nLaunch + 1
  /\ legacy' = [legacy EXCEPT !.old_write = process.stdout]
  /\ process' = [process EXCEPT !.stdout = NoopSink]
  /\ deferred' = [deferred EXCEPT ![nLaunch + 1] = "pending"]
  /\ pending' = pending \cup {Op("legacyPs", nLaunch + 1, Undefined, Undefined)}
  /\ gTrace' = Trace(nLaunch + 1,
       <<Ev("legacy", IF Idle THEN 1 ELSE 0),
         Ev("sinks", <<process.stdout, process.stderr>>),
         Ev("suppress", 0), Ev("ps:start", 0)>>)
  /\ UNCHANGED <<this, nKill, gKillTrace, gReap, gArgs, gDriver, parse>>

\* the callback launch() gives to _processes: store the snapshot, run appium
LegacyListed(op, out, throws) ==
  /\ op \in pending /\ op.op = "legacyPs"
  /\ LET result == Listed(out)
         t1 == [legacy EXCEPT !.openProcesses = [defined |-> TRUE, list |-> result],
                              !.argsPort = legacy.port,
                              !.argsWebhookHost = legacy.host,
                              !.argsWebhookPort = legacy.webhookPort]
     IN /\ legacy' = t1
        /\ gArgs' = [gArgs EXCEPT ![op.id] = LegacyArgs(t1)]
        /\ gTrace' = Trace(op.id,
             <<Ev(IF out.err THEN "ps:error" ELSE "ps:done", 0),
               Ev("snapshot", result), Ev("appium:run", 0)>>
             \o (IF throws THEN <<Ev("appium:threw", 0)>> ELSE <<>>))
  /\ pending' = (pending \ {op}) \cup
       (IF throws THEN {} ELSE {Op("legacyAppium", op.id, Undefined, Undefined)})
  /\ UNCHANGED <<this, process, deferred, nLaunch, nKill, gKillTrace, gReap, gDriver, parse>>

\* the callback launch() gives to appium.run
LegacyStarted(op) ==
  /\ op \in pending /\ op.op = "legacyAppium"
  /\ legacy' = [legacy EXCEPT !.appiumServer = op.id]
  /\ process' = [process EXCEPT !.stdout = legacy.old_write]
  /\ deferred' = [deferred EXCEPT ![op.id] = "resolved"]
  /\ pending' = pending \ {op}
  /\ gTrace' = Trace(op.id, <<Ev("ready", op.id), Ev("restore", 0), Ev("resolve", 0)>>)
  /\ UNCHANGED <<this, nLaunch, nKill, gKillTrace, gReap, gArgs, gDriver, parse>>

\* kill(): list the processes
LegacyKill ==
  /\ gDriver = "legacy"
  /\ nKill < MaxKill
  /\ nKill' = nKill + 1
  /\ pending' = pending \cup {Op("legacyPsKill", nKill + 1, Undefined, Undefined)}
  /\ gKillTrace' = KillTrace(nKill + 1, <<Ev("legacy", nLaunch), Ev("ps:start", 0)>>)
  /\ UNCHANGED <<this, legacy, process, deferred, nLaunch, gTrace, gReap, gArgs, gDriver, parse>>

\* the callback kill() gives to _processes: close the listeners (which
\* throws as in the kill() of the driver), then signal the new processes
LegacyReap(op, out, failed) ==
  /\ op \in pending /\ op.op = "legacyPsKill"
  /\ pending' = pending \ {op}
  /\ LET result == Listed(out)
         signalled == KillEach(legacy, result)
         listed == <<Ev(IF out.err THEN "ps:error" ELSE "ps:done", 0)>>
     IN \/ /\ legacy.appiumServer = Undefined \/ legacy.appiumServer \in Closed
           /\ failed = {}
           /\ gKillTrace' = KillTrace(op.id, listed \o <<Ev("threw", legacy.appiumServer)>>)
           /\ UNCHANGED gReap
        \/ /\ legacy.appiumServer # Undefined
           /\ gKillTrace' = KillTrace(op.id, listed \o
                <<Ev("stop:ws", legacy.appiumServer),
                  Ev("stop:rest", legacy.appiumServer), Ev("signal", Len(signalled))>>)
           /\ failed \subseteq Range(signalled)
           /\ gReap' = [gReap EXCEPT ![op.id] =
                [done |-> TRUE, baseline |-> legacy.openProcesses.list,
                 current |-> result, signalled |-> signalled, failed |-> failed,
              launches |-> nLaunch]]
  /\ UNCHANGED <<this, legacy, process, deferred, nLaunch, nKill, gTrace, gArgs, gDriver, parse>>

(***************************************************************************)
(* The parser on its own: cp.exec may hand any text to its callback.       *)
(***************************************************************************)
\* the characters of such a text: blank, line end, the marker's character,
\* a digit and a letter
Alphabet == {SP, NL, "?", "1", "t"}

Texts == UNION {[1..n -> Alphabet] : n \in 0..MaxText}

\* _transformProcesses(fn, err, stdout) of the driver
TransformCall ==
  /\ gDriver = "index" /\ ~parse.done
  /\ parse' = [parse EXCEPT !.done = TRUE, !.result = _transformProcesses(parse.stdout)]
  /\ UNCHANGED <<this, legacy, process, deferred, pending, nLaunch, nKill, gTrace,
                 gKillTrace, gReap, gArgs, gDriver>>

\* the callback _processes of the legacy variant gives to cp.exec
LegacyTransformCall ==
  /\ gDriver = "legacy" /\ ~parse.done
  /\ parse' = [parse EXCEPT !.done = TRUE, !.result = LegacyTransform(parse.stdout)]
  /\ UNCHANGED <<this, legacy, process, deferred, pending, nLaunch, nKill, gTrace,
                 gKillTrace, gReap, gArgs, gDriver>>

(***************************************************************************)
(* Specifications.  Spec explores the lifecycle of either variant, the one  *)
(* the process loaded: launch() and kill() in any order, every outcome of  *)
(* the process listing and of appium.run, with the default configuration   *)
(* on a host whose ports are free.  SpecPorts explores the negotiation of  *)
(* the driver: every configuration and every occupancy of the port pool,   *)
(* for a caller that launches once the driver has settled and calls       *)
(* kill() once the launch promise is resolved, on a host with one fixed    *)
(* listing (Spec covers the calls that overlap).                           *)
(***************************************************************************)
\* the pids as the listing spells them
PidTexts == {ToText(p) : p \in Pids}

\* the pending operations of one kind
Ops(kind) == {op \in pending : op.op = kind}

Next ==
  \/ launch("iphone", <<>>)
  \/ \E op \in Ops("scanPort") : _checkPorts(op, {})
  \/ \E op \in Ops("scanWebhook") : _launch(op, {})
  \/ \E op \in Ops("psLaunch"), out \in ExecOutcomes, throws \in BOOLEAN :
       _listProcesses(op, out, throws)
  \/ \E op \in Ops("appium") : _afterAppiumStarted(op)
  \/ kill
  \/ \E op \in Ops("timer") : KillTimer(op)
  \/ \E op \in Ops("psKill"), out \in ExecOutcomes, failed \in SUBSET PidTexts :
       _kill(op, out, failed)
  \/ LegacyLaunch
  \/ \E op \in Ops("legacyPs"), out \in ExecOutcomes, throws \in BOOLEAN :
       LegacyListed(op, out, throws)
  \/ \E op \in Ops("legacyAppium") : LegacyStarted(op)
  \/ LegacyKill
  \/ \E op \in Ops("legacyPsKill"), out \in ExecOutcomes, failed \in SUBSET PidTexts :
       LegacyReap(op, out, failed)

Spec == Init /\ [][Next]_vars

\* the caller waits for the driver to settle: no operation is pending
Settled == pending = {}

\* the promise of the latest launch() has been resolved
LatestResolved == nLaunch > 0 /\ deferred[nLaunch] = "resolved"

\* the ports of the pool a scan can come to probe (what holds the others
\* makes no difference to it)
Scanned(op) ==
  {p \in PortPool : p >= op.lo /\ (op.hi = Undefined \/ p <= op.hi)}

NextPorts ==
  \/ /\ Settled
     /\ \E type \in DeviceTypes, browsers \in BrowsersLists : launch(type, browsers)
  \/ \E op \in Ops("scanPort") : \E occupied \in SUBSET Scanned(op) :
       _checkPorts(op, occupied)
  \/ \E op \in Ops("scanWebhook") : \E occupied \in SUBSET Scanned(op) :
       _launch(op, occupied)
  \/ \E op \in Ops("psLaunch") : _listProcesses(op, QuietListing, FALSE)
  \/ \E op \in Ops("appium") : _afterAppiumStarted(op)
  \/ LatestResolved /\ kill
  \/ \E op \in Ops("timer") : KillTimer(op)
  \/ \E op \in Ops("psKill") : _kill(op, QuietListing, {})

InitPorts == Init /\ gDriver = "index"

\* SpecLive is the driver with a caller that calls launch() and kill() in any
\* order, on a host where every external operation completes: both scans
\* report a port, the listings return and appium calls back.  The event
\* loop runs every callback whose operation has completed, which is weak
\* fairness of each callback; nothing obliges the caller to call.
ScanPortDone == \E op \in Ops("scanPort") : _checkPorts(op, {})
ScanWebhookDone == \E op \in Ops("scanWebhook") : _launch(op, {})
ListingDone == \E op \in Ops("psLaunch") : _listProcesses(op, QuietListing, FALSE)
AppiumReady == \E op \in Ops("appium") : _afterAppiumStarted(op)
TimerFired == \E op \in Ops("timer") : KillTimer(op)
KillListingDone ==
  \E op \in Ops("psKill"), out \in ExecOutcomes : _kill(op, out, {})

NextLive ==
  \/ launch("iphone", <<>>)
  \/ ScanPortDone
  \/ ScanWebhookDone
  \/ ListingDone
  \/ AppiumReady
  \/ kill
  \/ TimerFired
  \/ KillListingDone

Fairness ==
  /\ WF_vars(ScanPortDone)
  /\ WF_vars(ScanWebhookDone)
  /\ WF_vars(ListingDone)
  /\ WF_vars(AppiumReady)
  /\ WF_vars(TimerFired)
  /\ WF_vars(KillListingDone)

SpecLive == InitPorts /\ [][NextLive]_vars /\ Fairness

\* SpecParse gives every text of the alphabet, up to MaxText characters, to
\* the parser of the loaded variant
InitParse ==
  /\ \E driver \in {"index", "legacy"}, stdout \in Texts :
       /\ gDriver = driver
       /\ parse = [NoParse EXCEPT !.stdout = stdout]
  /\ this = [port |-> DefaultPort,
             maxPort |-> Undefined,
             webhookPort |-> DefaultWebhookPort,
             maxWebhookPort |-> Undefined,
             host |-> "localhost",
             forceIpad |-> FALSE,
             argsPort |-> Undefined,
             argsWebhookHost |-> "",
             argsWebhookPort |-> Undefined,
             openProcesses |-> NoList,
             appiumServer |-> Undefined,
             oldWrite |-> "undefined",
             oldWriteErr |-> "undefined"]
  /\ legacy = [port |-> DefaultPort,
               webhookPort |-> DefaultWebhookPort,
               host |-> "localhost",
               forceIpad |-> FALSE,
               argsPort |-> Undefined,
               argsWebhookHost |-> "",
               argsWebhookPort |-> Undefined,
               openProcesses |-> NoList,
               appiumServer |-> Undefined,
               old_write |-> "undefined"]
  /\ process = [stdout |-> OrigSink, stderr |-> OrigSink]
  /\ deferred = [d \in Sessions |-> "none"]
  /\ pending = {}
  /\ nLaunch = 0
  /\ nKill = 0
  /\ gTrace = [d \in Sessions |-> <<>>]
  /\ gKillTrace = [k \in Kills |-> <<>>]
  /\ gReap = [k \in Kills |-> NoReap]
  /\ gArgs = [d \in Sessions |-> NoArgs]

NextParse == TransformCall \/ LegacyTransformCall

SpecParse == InitParse /\ [][NextParse]_vars

SpecPorts == InitPorts /\ [][NextPorts]_vars

(***************************************************************************)
(* Properties                                                              *)
(***************************************************************************)
IndexSessions == {d \in Started : gTrace[d][1].e = "launch"}

\* the launches that stored a process snapshot, and the snapshot of each
Snapshotted == {d \in Started : Has(gTrace[d], "snapshot")}
Snapshot(d) == Val(gTrace[d], "snapshot")

Reapings == {k \in Kills : gReap[k].done}

\* C1: no reaping ever signals a process of the baseline snapshot: the
\* baseline a reaping works against is a snapshot that a launch captured
\* and stored, and no pid that reaping signals is a member of it.
C1_BaselineNeverSignalled ==
  \A k \in Reapings :
    /\ \E d \in Snapshotted : Snapshot(d) = gReap[k].baseline
    /\ Range(gReap[k].signalled) \cap Range(gReap[k].baseline) = {}

\* a reaping found a baseline process still running, and signalled another
C1_Witness ==
  \E k \in Reapings :
    /\ Range(gReap[k].current) \cap Range(gReap[k].baseline) # {}
    /\ gReap[k].signalled # <<>>

\* C2: in a launch of the driver the control-port negotiation has ended
\* before the webhook-port negotiation starts, that one has ended before
\* the process listing is requested, and the snapshot is stored before
\* appium.run is called; each step happens once and at most one of them is
\* pending at a time.
C2_LaunchOrder ==
  \A d \in IndexSessions :
    LET t == gTrace[d]
        chain == {op \in pending : op.id = d /\ op.op \in
                    {"scanPort", "scanWebhook", "psLaunch", "appium"}}
    IN /\ Has(t, "hook:start") =>
            Pos(t, "ctl:start") < Pos(t, "ctl:done")
              /\ Pos(t, "ctl:done") < Pos(t, "hook:start")
       /\ Has(t, "ps:start") =>
            Has(t, "hook:done") /\ Pos(t, "hook:start") < Pos(t, "hook:done")
              /\ Pos(t, "hook:done") < Pos(t, "ps:start")
       /\ Has(t, "appium:run") =>
            Has(t, "snapshot") /\ Pos(t, "ps:start") < Pos(t, "snapshot")
              /\ Pos(t, "snapshot") < Pos(t, "appium:run")
       /\ \A e \in {"ctl:start", "ctl:done", "hook:start", "hook:done",
                    "ps:start", "snapshot", "appium:run"} : Count(t, e) <= 1
       /\ Cardinality(chain) <= 1

\* a launch of the driver went through all four steps
C2_Witness ==
  \E d \in IndexSessions : Has(gTrace[d], "appium:run")

\* C3: a teardown that tells the server to stop does so before its delay
\* starts, lists the processes only after the delay, and neither lists nor
\* signals a process before the stop.
C3_TeardownOrder ==
  \A k \in Kills :
    LET t == gKillTrace[k]
    IN Has(t, "stop:ws") =>
         /\ Pos(t, "stop:ws") < Pos(t, "stop:rest")
         /\ Has(t, "ps:start") =>
              Has(t, "timer") /\ Pos(t, "stop:rest") < Pos(t, "timer")
                /\ Pos(t, "timer") < Pos(t, "ps:start")
         /\ Has(t, "signal") => Pos(t, "stop:rest") < Pos(t, "signal")

\* C4: a reaping signals exactly the enumerated pids that are not in the
\* baseline: every one of them, once, and no other pid.
C4_KillSetIsDifference ==
  \A k \in Reapings :
    /\ Range(gReap[k].signalled) = Range(gReap[k].current) \ Range(gReap[k].baseline)
    /\ \A i, j \in 1..Len(gReap[k].signalled) :
         gReap[k].signalled[i] = gReap[k].signalled[j] => i = j

\* baseline {1}, enumeration {1, 2}: only 2 is signalled
C4_Witness ==
  \E k \in Reapings :
    /\ gReap[k].baseline = <<ToText(1)>>
    /\ gReap[k].current = <<ToText(1), ToText(2)>>
    /\ gReap[k].signalled = <<ToText(2)>>

\* C5: when a negotiation finds every port of its range occupied the launch
\* is aborted: the promise is rejected, nothing of the launch follows and
\* the driver's port keeps a valid value.
C5_ExhaustionAborts ==
  \A d \in IndexSessions :
    LET t == gTrace[d]
    IN /\ (Has(t, "ctl:done") /\ Val(t, "ctl:done") = False) =>
            /\ deferred[d] = "rejected"
            /\ ~Has(t, "hook:start") /\ ~Has(t, "ps:start") /\ ~Has(t, "appium:run")
            /\ this.port # False
       /\ (Has(t, "hook:done") /\ Val(t, "hook:done") = False) =>
            /\ deferred[d] = "rejected"
            /\ ~Has(t, "ps:start") /\ ~Has(t, "appium:run")
            /\ this.webhookPort # False

\* C6: when the listing for the snapshot reports an error the launch is
\* aborted: the promise is rejected, the console is not redirected and
\* appium.run is not called.
C6_ListingErrorAborts ==
  \A d \in IndexSessions :
    Has(gTrace[d], "ps:error") =>
      /\ deferred[d] = "rejected"
      /\ ~Has(gTrace[d], "suppress")
      /\ ~Has(gTrace[d], "appium:run")

\* C7: when appium.run fails the promise is rejected and both console
\* sinks are the ones installed before the redirection.
C7_StartFailureRestores ==
  \A d \in IndexSessions :
    (d = nLaunch /\ Has(gTrace[d], "appium:threw")) =>
      /\ deferred[d] = "rejected"
      /\ process.stdout = OrigSink
      /\ process.stderr = OrigSink

\* the kill() calls made since session d was launched
KillsSince(d) == {k \in 1..nKill : gKillTrace[k][1].v >= d}

\* session d of the driver is Ready: launched on an idle driver with no
\* launch after it, its promise resolved, and no kill() since its launch
Ready(d) ==
  /\ d \in IndexSessions /\ d = nLaunch
  /\ Val(gTrace[d], "launch") = 1
  /\ deferred[d] = "resolved"
  /\ KillsSince(d) = {}

\* C8 as stated: throughout Ready the handle is stored and both sinks are
\* the ones installed before the redirection.
C8_ReadyBothSinksRestored ==
  \A d \in Started :
    Ready(d) =>
      /\ this.appiumServer = d
      /\ process.stdout = OrigSink
      /\ process.stderr = OrigSink

\* C8 as amended: throughout Ready the handle is stored and the stdout sink
\* is the one installed before the redirection, while the stderr sink is
\* still the no-op sink (the reaping of kill() puts it back).
C8_ReadyStdoutRestored ==
  \A d \in Started :
    Ready(d) =>
      /\ this.appiumServer = d
      /\ process.stdout = OrigSink
      /\ process.stderr = NoopSink
      /\ this.oldWriteErr = OrigSink

C8_Witness == \E d \in Started : Ready(d)

\* C9: a launch promise is resolved only after appium's readiness callback
\* has stored the handle; while that callback has not run the promise is
\* pending; and no promise is ever rejected.
C9_ResolvedOnlyByReadiness ==
  \A d \in Started :
    LET t == gTrace[d]
    IN /\ deferred[d] # "rejected"
       /\ deferred[d] = "resolved" <=> Has(t, "resolve")
       /\ Has(t, "resolve") => Has(t, "ready") /\ Pos(t, "ready") < Pos(t, "resolve")
       /\ ~Has(t, "ready") => deferred[d] = "pending"

\* the server has been started and has not signalled readiness
C9_Witness ==
  \E d \in Started :
    /\ Has(gTrace[d], "appium:run") /\ ~Has(gTrace[d], "ready")
    /\ deferred[d] = "pending"

\* C10: once both negotiations of the latest launch have ended, the driver
\* holds the two reported ports from then on, appium.run is given them
\* (port, and host ':' webhook port), and so do getPort / getWebhookPort
\* return them.
C10_PortsStable ==
  \A d \in IndexSessions :
    (d = nLaunch /\ Has(gTrace[d], "hook:done")) =>
      /\ getPort(this) = Val(gTrace[d], "ctl:done")
      /\ getWebhookPort(this) = Val(gTrace[d], "hook:done")
      /\ Has(gTrace[d], "appium:run") =>
           /\ gArgs[d].port = Val(gTrace[d], "ctl:done")
           /\ gArgs[d].webhookHost = getHost(this)
           /\ gArgs[d].webhookPort = Val(gTrace[d], "hook:done")

\* a session that switched both ports is Ready
C10_Witness ==
  \E d \in Started :
    /\ Ready(d)
    /\ Val(gTrace[d], "ctl:done") \notin {DefaultPort, False}
    /\ Val(gTrace[d], "hook:done") \notin {DefaultWebhookPort, False}
    /\ gArgs[d].port = Val(gTrace[d], "ctl:done")

\* a search range <<preferred, max>> with a port to start at and a maximum
\* that is absent or not below it
RangeOk(r) == r[1] >= 0 /\ (r[2] = Undefined \/ r[2] >= r[1])

\* C11: when the preferred port of a negotiation is free on the host and the
\* maximum is not below it, the scan reports the preferred port, the driver
\* keeps it and emits no switch message for that negotiation; for the
\* control port and for the webhook port.
C11_FreePreferredKept ==
  \A d \in IndexSessions :
    LET t == gTrace[d]
    IN /\ (Has(t, "ctl:done") /\ Val(t, "ctl:free") = 1
              /\ RangeOk(Val(t, "ctl:range"))) =>
            /\ Val(t, "ctl:done") = Val(t, "ctl:range")[1]
            /\ ~Has(t, "log:switchPort")
            /\ d = nLaunch => getPort(this) = Val(t, "ctl:range")[1]
       /\ (Has(t, "hook:done") /\ Val(t, "hook:free") = 1
              /\ RangeOk(Val(t, "hook:range"))) =>
            /\ Val(t, "hook:done") = Val(t, "hook:range")[1]
            /\ ~Has(t, "log:switchWebhookPort")
            /\ d = nLaunch => getWebhookPort(this) = Val(t, "hook:range")[1]

\* a user range whose first port is free, other ports of the host being in
\* use, and a free default webhook port: both negotiations have ended
C11_Witness ==
  \E d \in IndexSessions :
    LET t == gTrace[d]
    IN /\ Has(t, "hook:done")
       /\ Val(t, "ctl:range") = <<UserPort, UserMax>>
       /\ Val(t, "ctl:free") = 1 /\ Val(t, "ctl:done") = UserPort
       /\ Val(t, "hook:range") = <<DefaultWebhookPort, Undefined>>
       /\ Val(t, "hook:free") = 1 /\ Val(t, "hook:done") = DefaultWebhookPort

\* C12: when the preferred port of a negotiation is in use and a port above
\* it, up to the maximum, is free, the driver adopts the lowest such port
\* and emits the switch message naming it exactly once; for the control
\* port and for the webhook port.
C12_SwitchLoggedOnce ==
  \A d \in IndexSessions :
    LET t == gTrace[d]
        ctl == Val(t, "ctl:range")
        ctlDone == Val(t, "ctl:done")
        hook == Val(t, "hook:range")
        hookDone == Val(t, "hook:done")
    IN /\ (Has(t, "ctl:done") /\ Val(t, "ctl:free") = 0
              /\ RangeOk(ctl) /\ Val(t, "ctl:lowest") # False) =>
            /\ ctlDone = Val(t, "ctl:lowest")
            /\ ctlDone > ctl[1]
            /\ ctl[2] # Undefined => ctlDone <= ctl[2]
            /\ Count(t, "log:switchPort") = 1
            /\ Val(t, "log:switchPort") = ctlDone
            /\ d = nLaunch => getPort(this) = ctlDone
       /\ (Has(t, "hook:done") /\ Val(t, "hook:free") = 0
              /\ RangeOk(hook) /\ Val(t, "hook:lowest") # False) =>
            /\ hookDone = Val(t, "hook:lowest")
            /\ hookDone > hook[1]
            /\ hook[2] # Undefined => hookDone <= hook[2]
            /\ Count(t, "log:switchWebhookPort") = 1
            /\ Val(t, "log:switchWebhookPort") = hookDone
            /\ d = nLaunch => getWebhookPort(this) = hookDone

\* the first port of a user range is in use and the driver moved to its
\* second; the default webhook port is in use and the driver moved up by one
C12_Witness ==
  \E d \in IndexSessions :
    LET t == gTrace[d]
    IN /\ Has(t, "hook:done")
       /\ Val(t, "ctl:range") = <<UserPort, UserMax>>
       /\ Val(t, "ctl:free") = 0 /\ Val(t, "ctl:done") = UserPort + 1
       /\ Val(t, "hook:free") = 0 /\ Val(t, "hook:done") = DefaultWebhookPort + 1
       /\ getPort(this) = UserPort + 1
       /\ getWebhookPort(this) = DefaultWebhookPort + 1

\* the search range a browser entry asks for: its two-element range when it
\* has one, else its single port and the 90 ports above it, else none
AskedRange(single, range) ==
  IF Len(range) = 2 THEN <<range[1], range[2]>>
  ELSE IF Truthy(single) THEN <<single, single + 90>>
  ELSE <<>>

\* C13: a launch whose browser entry configures a single port p searches
\* p .. p + 90, one that configures a range [lo, hi] searches lo .. hi, and
\* when both are configured the range is searched; for the control port
\* (port / portRange) and for the webhook port (webhookPort /
\* webhookPortRange).
C13_UserBounds ==
  \A d \in IndexSessions :
    LET t == gTrace[d]
        browsers == Val(t, "config")
        ctl == AskedRange(browsers[1].port, browsers[1].portRange)
        hook == AskedRange(browsers[1].webhookPort, browsers[1].webhookPortRange)
    IN Len(browsers) = 1 =>
         /\ ctl # <<>> => Val(t, "ctl:range") = ctl
         /\ (hook # <<>> /\ Has(t, "hook:range")) => Val(t, "hook:range") = hook

\* launches that searched 6100 .. 6190 for a single port, the range itself
\* for an entry with a range and another single port, and likewise for the
\* webhook port
C13_Witness ==
  /\ \E d \in IndexSessions :
       /\ Len(Val(gTrace[d], "config")) = 1
       /\ Val(gTrace[d], "config")[1].port = UserPort
       /\ Val(gTrace[d], "ctl:range") = <<UserPort, UserPort + 90>>
       /\ Has(gTrace[d], "ctl:done")
  /\ \E d \in IndexSessions :
       /\ Len(Val(gTrace[d], "config")) = 1
       /\ Val(gTrace[d], "config")[1].webhookPort = UserPort + 1
       /\ Has(gTrace[d], "hook:done")
       /\ Val(gTrace[d], "hook:range") = <<UserPort, UserMax>>

\* no launch up to session d applied a user-defined port or port range
NoOverrideUpTo(d) ==
  \A c \in 1..d :
    \A e \in {"log:userPort", "log:userPortRange",
              "log:userWebhookPort", "log:userWebhookPortRange"} :
      ~Has(gTrace[c], e)

\* C14: with no user-defined port or port range the WebDriver server port
\* is searched from 9003 up to 9093, and the port the negotiation ends with
\* lies in 9003..9093.
C14_DefaultRange ==
  \A d \in IndexSessions :
    NoOverrideUpTo(d) =>
      /\ Val(gTrace[d], "ctl:range") = <<9003, 9093>>
      /\ Has(gTrace[d], "ctl:done") =>
           Val(gTrace[d], "ctl:done") \in 9003..9093

\* C15: before the first launch the driver's control port is 4723 and its
\* webhook port is 9003, and a first launch without user-defined ports
\* starts the control-port negotiation at 4723 and the webhook-port
\* negotiation at 9003.
C15_DefaultPorts ==
  /\ nLaunch = 0 => getPort(this) = 4723 /\ getWebhookPort(this) = 9003
  /\ (1 \in IndexSessions /\ NoOverrideUpTo(1)) =>
       /\ Val(gTrace[1], "ctl:range")[1] = 4723
       /\ Has(gTrace[1], "hook:range") => Val(gTrace[1], "hook:range")[1] = 9003

\* a first launch without user-defined ports found 4723 in use, moved the
\* control port and went on to negotiate the webhook port
C15_Witness ==
  /\ 1 \in IndexSessions /\ NoOverrideUpTo(1)
  /\ Has(gTrace[1], "hook:done")
  /\ Val(gTrace[1], "ctl:done") = 4724
  /\ Val(gTrace[1], "hook:range")[1] = 9003

\* the kill() calls of the driver made after a launch request
KillsAfterLaunch ==
  {k \in 1..nKill : gKillTrace[k][1].e = "kill" /\ gKillTrace[k][1].v >= 1}

\* C16: a kill() called in any state reached after a launch request does
\* not raise and schedules the reaping, and when it stops a handle it stops
\* both of its listeners.
C16_KillNeverRaises ==
  \A k \in KillsAfterLaunch :
    LET t == gKillTrace[k]
    IN /\ ~Has(t, "threw")
       /\ Has(t, "timer")
       /\ Has(t, "stop:ws") <=> Has(t, "stop:rest")

\* session d of the driver was launched on an idle driver, became Ready and
\* was then torn down by kill() call k, the only kill() since its launch,
\* with no launch after it; the reaping of k has run
TornDown(d, k) ==
  /\ d \in IndexSessions /\ d = nLaunch
  /\ Val(gTrace[d], "launch") = 1
  /\ KillsSince(d) = {k}
  /\ Ev("stop:ws", d) \in Range(gKillTrace[k])
  /\ gReap[k].done

\* C17: when the reaping of a session that was Ready and was torn down by
\* kill() has run, the driver is Idle again and the stdout and stderr sinks
\* are the ones that were installed when the session was launched.
C17_TornDownIdleAndRestored ==
  \A d \in Started, k \in Kills :
    TornDown(d, k) =>
      /\ Idle
      /\ process.stdout = Val(gTrace[d], "sinks")[1]
      /\ process.stderr = Val(gTrace[d], "sinks")[2]

\* a session was torn down after its launch had redirected both sinks
C17_Witness ==
  \E d \in Started, k \in Kills :
    /\ TornDown(d, k)
    /\ Has(gTrace[d], "suppress")
    /\ Val(gTrace[d], "sinks") = <<OrigSink, OrigSink>>

\* the reapings of the driver (not of the legacy variant)
IndexReapings == {k \in Reapings : gKillTrace[k][1].e = "kill"}

\* C18: when the termination of some pid of the kill set fails, every pid
\* of the kill set has still been signalled, the stderr sink has been put
\* back, the teardown has completed, and each failure has been reported as
\* a log message.
C18_FailuresLoggedNotRaised ==
  \A k \in IndexReapings :
    gReap[k].failed # {} =>
      /\ Range(gReap[k].signalled) = Range(gReap[k].current) \ Range(gReap[k].baseline)
      /\ Has(gKillTrace[k], "restoreErr")
      /\ \A op \in pending : op.id = k => op.op \notin {"timer", "psKill"}
      /\ Count(gKillTrace[k], "log:killFailed") = Cardinality(gReap[k].failed)

\* C19: within one session no pid is signalled more than once: no reaping
\* signals a pid twice, and two reapings whose kill() calls were made in
\* the same session signal no pid in common.
C19_NoPidSignalledTwice ==
  /\ \A k \in IndexReapings :
       \A i, j \in 1..Len(gReap[k].signalled) :
         gReap[k].signalled[i] = gReap[k].signalled[j] => i = j
  /\ \A k1, k2 \in IndexReapings :
       (k1 # k2 /\ gKillTrace[k1][1].v = gKillTrace[k2][1].v) =>
         Range(gReap[k1].signalled) \cap Range(gReap[k2].signalled) = {}

\* the baseline the loaded variant holds
Stored == IF gDriver = "index" THEN this.openProcesses ELSE legacy.openProcesses

\* C20: a launch stores the baseline once, before it calls appium.run; from
\* then on, for a session launched on an idle driver and as long as no
\* other launch follows, the stored baseline is that snapshot in every
\* state (server start, readiness, kill(), re-enumeration and reaping leave
\* it alone), and the reaping that tears the session down works against it.
C20_BaselineWrittenOnce ==
  \A d \in Started :
    LET t == gTrace[d]
    IN /\ Count(t, "snapshot") <= 1
       /\ Has(t, "appium:run") =>
            Has(t, "snapshot") /\ Pos(t, "snapshot") < Pos(t, "appium:run")
       /\ (d = nLaunch /\ t[1].v = 1 /\ Has(t, "snapshot")) =>
            /\ Stored.defined
            /\ Stored.list = Snapshot(d)
            /\ \A k \in Reapings :
                 Ev("stop:ws", d) \in Range(gKillTrace[k]) =>
                   gReap[k].baseline = Snapshot(d)

\* a session with baseline {1} has been reaped while pid 2 was listed too
C20_Witness ==
  \E d \in IndexSessions, k \in Reapings :
    /\ d = nLaunch /\ gTrace[d][1].v = 1 /\ Has(gTrace[d], "snapshot")
    /\ Snapshot(d) = <<ToText(1)>>
    /\ Ev("stop:ws", d) \in Range(gKillTrace[k])
    /\ gReap[k].current = <<ToText(1), ToText(2)>>

\* the positions of `text` at which a piece starts: a character that is not
\* `sep` and has the start of the text or a `sep` before it
Starts(text, sep) ==
  {i \in 1..Len(text) : text[i] # sep /\ (i = 1 \/ text[i - 1] = sep)}

\* the piece that starts at i: the characters up to the next `sep`
PieceAt(text, sep, i) ==
  LET ends == {j \in i..Len(text) : \A m \in i..j : text[m] # sep}
  IN SubSeq(text, i, CHOOSE j \in ends : \A m \in ends : m <= j)

\* the pieces in the order of their positions
RECURSIVE PiecesFrom(_, _, _)
PiecesFrom(text, sep, starts) ==
  IF starts = {} THEN <<>>
  ELSE LET i == CHOOSE a \in starts : \A b \in starts : a <= b
       IN <<PieceAt(text, sep, i)>> \o PiecesFrom(text, sep, starts \ {i})

\* the non-empty lines of a text, and the tokens of a line
LinesOf(text) == PiecesFrom(text, NL, Starts(text, NL))
TokensOf(line) == PiecesFrom(line, SP, Starts(line, SP))

\* what the lines contribute, in order: the first token of every line that
\* has at least two tokens and '??' as the second
RECURSIVE Matched(_)
Matched(lines) ==
  IF lines = <<>> THEN <<>>
  ELSE LET tokens == TokensOf(Head(lines))
       IN (IF Len(tokens) >= 2 /\ tokens[2] = <<"?", "?">>
           THEN <<tokens[1]>> ELSE <<>>) \o Matched(Tail(lines))

NoOverrideIn(d) ==
  \A e \in {"log:userPort", "log:userPortRange",
            "log:userWebhookPort", "log:userWebhookPortRange"} :
    ~Has(gTrace[d], e)

\* C22: in every launch/kill cycle the arguments of appium.run follow from
\* the configuration of that launch alone: forceIpad is set iff its type is
\* 'ipad', and a launch without user-defined ports searches from the
\* defaults 4723 and 9003 with no maximum, whatever earlier sessions
\* configured or resolved.
C22_ConfigurationPerSession ==
  \A d \in IndexSessions :
    LET t == gTrace[d]
    IN Val(t, "launch") = 1 =>
         /\ Has(t, "appium:run") =>
              (gArgs[d].forceIpad <=> Val(t, "type") = "ipad")
         /\ NoOverrideIn(d) =>
              /\ Val(t, "ctl:range") = <<4723, Undefined>>
              /\ Has(t, "hook:range") => Val(t, "hook:range") = <<9003, Undefined>>

\* kill() call k was made while session d was Ready: d was launched on an
\* idle driver and was the latest launch, its handle was stored, and k is
\* the first kill() since its launch
KilledInReady(d, k) ==
  /\ d \in IndexSessions /\ k \in 1..nKill
  /\ Val(gTrace[d], "launch") = 1
  /\ gKillTrace[k][1].v = d
  /\ Ev("stop:ws", d) \in Range(gKillTrace[k])
  /\ \A j \in KillsSince(d) : k <= j

\* C23: when every external operation completes, every launch resolves its
\* promise in the end, and every kill() made in Ready has its reaping run
\* in the end, after which the driver is Idle (unless the caller has
\* launched again in the meantime).
C23_Progress ==
  /\ \A d \in Sessions : (deferred[d] = "pending") ~> (deferred[d] = "resolved")
  /\ \A d \in Sessions, k \in Kills :
       KilledInReady(d, k) ~> (gReap[k].done /\ (Idle \/ nLaunch > d))

\* a session was launched, resolved, killed in Ready and reaped, and the
\* driver is Idle
C23_Witness ==
  \E d \in Sessions, k \in Kills :
    /\ KilledInReady(d, k)
    /\ deferred[d] = "resolved"
    /\ gReap[k].done /\ Idle /\ nLaunch = d

\* C24: the control port and the webhook port given to appium.run in one
\* session are different ports, for every configuration and every
\* occupancy of the host's ports.
C24_PortsDistinct ==
  \A d \in IndexSessions :
    (Has(gTrace[d], "appium:run") /\ gArgs[d].port >= 0 /\ gArgs[d].webhookPort >= 0) =>
      gArgs[d].port # gArgs[d].webhookPort

\* kill() call k tore down the Ready session d, and launch() was called
\* again after that kill() returned and before its reaping ran
Overlapped(d, k) ==
  /\ KilledInReady(d, k)
  /\ gReap[k].done
  /\ gReap[k].launches > d

\* C25: when launch() is called again between a kill() and its reaping,
\* the reaping of the first session works against the first session's
\* baseline, and once nothing is pending and every session has been torn
\* down the stdout and stderr sinks are the ones installed before the
\* first launch.
C25_OverlapSafe ==
  \A d \in IndexSessions, k \in Reapings :
    Overlapped(d, k) =>
      /\ gReap[k].baseline = Snapshot(d)
      /\ Idle =>
           /\ process.stdout = Val(gTrace[d], "sinks")[1]
           /\ process.stderr = Val(gTrace[d], "sinks")[2]

====
